---------------------------- MODULE Spec2Model ----------------------------
(***************************************************************************)
(* Record extraction and feature derivation of the chess analysis scripts. *)
(*                                                                         *)
(* parse_pgn_file (chess_analysis.py, copied verbatim into four other      *)
(* scripts) and ChessAnalyzer.parse_pgn / prepare_player_data              *)
(* (comprehensive_chess_analysis.py) read a PGN source game by game and    *)
(* build flat records from the point of view of a tracked account.         *)
(*                                                                         *)
(* A raw entry is what chess.pgn.read_game hands back: a header mapping    *)
(* and a main line.  Header values that the code parses (ratings, rating   *)
(* diffs, TimeControl) are sequences of characters, so that int(),         *)
(* str.isdigit() and str.split() are computed the way Python computes      *)
(* them; values that are only compared or passed through are strings.      *)
(*                                                                         *)
(* advanced_time_analysis, generate_advanced_insights and                  *)
(* analyze_combined_data take the frame built from the parsed records,     *)
(* assign timestamp and calendar columns to it and return a frame sorted   *)
(* by account and timestamp with gap and session columns.  The source      *)
(* stands for the games of the files main parses, in the order in which    *)
(* main concatenates their records.  A frame is the sequence of its rows,  *)
(* each row holding its label in the field index.                          *)
(***************************************************************************)
EXTENDS Integers, Sequences, FiniteSets, TLC

VARIABLES source, script, pos, pc, games, games_data, game_count, players, player_df,
          deriver, main_df, df_sorted, run, previous,
          results, stage, streaks, max_win_streak, max_loss_streak

vars == <<source, script, pos, pc, games, games_data, game_count, players, player_df,
          deriver, main_df, df_sorted, run, previous,
          results, stage, streaks, max_win_streak, max_loss_streak>>

\* the names of the streak analysis of chess_analysis.py
streak_vars == <<results, stage, streaks, max_win_streak, max_loss_streak>>

(***************************************************************************)
(* Bounds of the model.                                                    *)
(***************************************************************************)
\* longest PGN source, in games, that is explored with mixed entries
MaxEntries == 3

(***************************************************************************)
(* Python strings as sequences of characters.                              *)
(* "ar3" stands for U+0663 (ARABIC-INDIC DIGIT THREE): str.isdigit() is    *)
(* true and int() reads it as 3.  "sup2" stands for U+00B2 (SUPERSCRIPT    *)
(* TWO): str.isdigit() is true but int() rejects it.                       *)
(***************************************************************************)
AsciiDigits == {"0", "1", "2", "3", "4", "5", "6", "7", "8", "9"}

\* characters int() accepts as decimal digits
DecimalChars == AsciiDigits \cup {"ar3"}

\* characters for which str.isdigit() is true
DigitChars == DecimalChars \cup {"sup2"}

WhitespaceChars == {" "}

DigitValue(c) ==
    CASE c = "0" -> 0 [] c = "1" -> 1 [] c = "2" -> 2 [] c = "3" -> 3
      [] c = "4" -> 4 [] c = "5" -> 5 [] c = "6" -> 6 [] c = "7" -> 7
      [] c = "8" -> 8 [] c = "9" -> 9 [] c = "ar3" -> 3 [] OTHER -> 0

\* str.isdigit(): non-empty and every character is a digit character
isdigit(s) == Len(s) > 0 /\ \A i \in 1..Len(s) : s[i] \in DigitChars

RECURSIVE lstrip(_)
lstrip(s) ==
    IF Len(s) > 0 /\ s[1] \in WhitespaceChars THEN lstrip(Tail(s)) ELSE s

RECURSIVE rstrip(_)
rstrip(s) ==
    IF Len(s) > 0 /\ s[Len(s)] \in WhitespaceChars
    THEN rstrip(SubSeq(s, 1, Len(s) - 1)) ELSE s

strip(s) == rstrip(lstrip(s))

\* the digits of an int() literal: decimal digits, single underscores between them
IsDigitBody(b) ==
    /\ Len(b) > 0
    /\ \A i \in 1..Len(b) :
          \/ b[i] \in DecimalChars
          \/ /\ b[i] = "_"
             /\ i > 1 /\ i < Len(b)
             /\ b[i - 1] \in DecimalChars
             /\ b[i + 1] \in DecimalChars

RECURSIVE DigitBodyValue(_, _)
DigitBodyValue(b, acc) ==
    IF Len(b) = 0 THEN acc
    ELSE IF b[1] = "_" THEN DigitBodyValue(Tail(b), acc)
    ELSE DigitBodyValue(Tail(b), acc * 10 + DigitValue(b[1]))

\* int(str): surrounding whitespace, an optional sign, the digits.
\* raised = TRUE is ValueError.
int_str(s) ==
    LET t == strip(s)
        signed == Len(t) > 0 /\ t[1] \in {"+", "-"}
        body == IF signed THEN Tail(t) ELSE t
        ok == IsDigitBody(body)
        mag == IF ok THEN DigitBodyValue(body, 0) ELSE 0
    IN [raised |-> ~ok,
        val |-> IF signed /\ t[1] = "-" THEN 0 - mag ELSE mag]

\* str.split(sep) for a one-character separator
RECURSIVE split(_, _)
split(s, sep) ==
    IF \A i \in 1..Len(s) : s[i] # sep THEN <<s>>
    ELSE LET k == CHOOSE i \in 1..Len(s) :
                     s[i] = sep /\ \A j \in 1..(i - 1) : s[j] # sep
         IN <<SubSeq(s, 1, k - 1)>> \o split(SubSeq(s, k + 1, Len(s)), sep)

\* sep in s
contains(s, sep) == \E i \in 1..Len(s) : s[i] = sep

(***************************************************************************)
(* Headers: a mapping from tag names to values.  read_game starts every    *)
(* game from the seven tag roster, so White, Black and Result are always   *)
(* present ("?" and "*" when the source gave none); all other tags are     *)
(* present only when the source gave them.                                 *)
(***************************************************************************)
\* a Python str object, as opposed to the int 0 some defaults are
Str(s) == [str |-> s]
Int0 == [int |-> 0]

\* headers.get(key, default)
headers_get(headers, key, default) ==
    IF key \in DOMAIN headers THEN headers[key] ELSE default

\* headers.get(key, default) where the default is not a str
headers_get_obj(headers, key, default) ==
    IF key \in DOMAIN headers THEN Str(headers[key]) ELSE default

\* value of an optional result: <<>> is None / NaN, <<v>> is v
None == <<>>
Some(v) == <<v>>


(***************************************************************************)
(* parse_pgn_file: one pass of the read loop over one raw entry.           *)
(***************************************************************************)
\* the inline allow-list ['IsmatS', 'Cassiny']
tracked_accounts == {"IsmatS", "Cassiny"}

\* account_of without the allow-list test on Black
account_of_any_black(headers) ==
    IF "White" \in DOMAIN headers /\ "Black" \in DOMAIN headers
    THEN IF headers["White"] \in tracked_accounts THEN Some(headers["White"])
         ELSE Some(headers["Black"])
    ELSE None

\* account_of with Black tested before White
account_of_black_first(headers) ==
    IF "White" \in DOMAIN headers /\ "Black" \in DOMAIN headers
    THEN IF headers["Black"] \in tracked_accounts THEN Some(headers["Black"])
         ELSE IF headers["White"] \in tracked_accounts THEN Some(headers["White"])
         ELSE None
    ELSE None

\* account_of without the test on Black
account_of_white_only(headers) ==
    IF "White" \in DOMAIN headers /\ "Black" \in DOMAIN headers
    THEN IF headers["White"] \in tracked_accounts THEN Some(headers["White"])
         ELSE None
    ELSE None

\* account of a game: White is tested first, then Black; None when neither
account_of(headers) ==
    IF "White" \in DOMAIN headers /\ "Black" \in DOMAIN headers
    THEN IF headers["White"] \in tracked_accounts THEN Some(headers["White"])
         ELSE IF headers["Black"] \in tracked_accounts THEN Some(headers["Black"])
         ELSE None
    ELSE None

\* safe_int(value, default=0): int(value), the default on ValueError / TypeError
safe_int(value) ==
    IF "int" \in DOMAIN value THEN value.int
    ELSE IF int_str(value.str).raised THEN 0
    ELSE int_str(value.str).val

\* 'win' if result == '1-0' else 'loss' if result == '0-1' else 'draw'
white_result(result) ==
    IF result = "1-0" THEN "win" ELSE IF result = "0-1" THEN "loss" ELSE "draw"

\* black_result with the white truth table
black_result_as_white(result) ==
    IF result = "1-0" THEN "win" ELSE IF result = "0-1" THEN "loss" ELSE "draw"

\* 'win' if result == '0-1' else 'loss' if result == '1-0' else 'draw'
black_result(result) ==
    IF result = "0-1" THEN "win" ELSE IF result = "1-0" THEN "loss" ELSE "draw"

\* perspective with the rating change read from the opponent's RatingDiff tag
perspective_opponent_diff(headers, account) ==
    LET result == headers_get(headers, "Result", "")
    IN IF account = headers_get(headers, "White", "")
       THEN [result        |-> white_result(result),
             color         |-> "white",
             player_elo    |-> safe_int(headers_get_obj(headers, "WhiteElo", Int0)),
             opponent_elo  |-> safe_int(headers_get_obj(headers, "BlackElo", Int0)),
             rating_change |-> safe_int(headers_get_obj(headers, "BlackRatingDiff", Int0))]
       ELSE [result        |-> black_result(result),
             color         |-> "black",
             player_elo    |-> safe_int(headers_get_obj(headers, "BlackElo", Int0)),
             opponent_elo  |-> safe_int(headers_get_obj(headers, "WhiteElo", Int0)),
             rating_change |-> safe_int(headers_get_obj(headers, "WhiteRatingDiff", Int0))]

\* the perspective of the account: result, colour, ratings, rating change
perspective(headers, account) ==
    LET result == headers_get(headers, "Result", "")
    IN IF account = headers_get(headers, "White", "")
       THEN [result        |-> white_result(result),
             color         |-> "white",
             player_elo    |-> safe_int(headers_get_obj(headers, "WhiteElo", Int0)),
             opponent_elo  |-> safe_int(headers_get_obj(headers, "BlackElo", Int0)),
             rating_change |-> safe_int(headers_get_obj(headers, "WhiteRatingDiff", Int0))]
       ELSE [result        |-> black_result(result),
             color         |-> "black",
             player_elo    |-> safe_int(headers_get_obj(headers, "BlackElo", Int0)),
             opponent_elo  |-> safe_int(headers_get_obj(headers, "WhiteElo", Int0)),
             rating_change |-> safe_int(headers_get_obj(headers, "BlackRatingDiff", Int0))]

\* base_time, increment = map(int, time_control.split('+')): ValueError when a
\* part is no int literal or when there are not exactly two parts
unpack_time_control(time_control) ==
    LET parts == split(time_control, "+")
        bad == \/ Len(parts) # 2
               \/ \E i \in 1..Len(parts) : int_str(parts[i]).raised
    IN [raised    |-> bad,
        base_time |-> IF bad THEN 0 ELSE int_str(parts[1]).val,
        increment |-> IF bad THEN 0 ELSE int_str(parts[2]).val]

\* the time-control block: the '+' form, else the whole string when isdigit()
parse_time_control(time_control) ==
    IF contains(time_control, "+") THEN unpack_time_control(time_control)
    ELSE IF isdigit(time_control)
         THEN [raised    |-> int_str(time_control).raised,
               base_time |-> int_str(time_control).val,
               increment |-> 0]
         ELSE [raised |-> FALSE, base_time |-> 0, increment |-> 0]

\* game_type_of with inclusive upper limits
game_type_of_inclusive(total_time) ==
    IF total_time <= 180 THEN "bullet"
    ELSE IF total_time <= 600 THEN "blitz"
    ELSE IF total_time <= 1800 THEN "rapid"
    ELSE "classical"

\* the game type of base_time + increment * 40
game_type_of(total_time) ==
    IF total_time < 180 THEN "bullet"
    ELSE IF total_time < 600 THEN "blitz"
    ELSE IF total_time < 1800 THEN "rapid"
    ELSE "classical"

\* the game_data dictionary of a tracked game whose time control parsed
game_data_of(entry, account, tc) ==
    LET headers == entry.headers
        p == perspective(headers, account)
    IN [account       |-> account,
        date          |-> headers_get(headers, "Date", <<>>),
        utc_date      |-> headers_get(headers, "UTCDate", <<>>),
        utc_time      |-> headers_get(headers, "UTCTime", <<>>),
        result        |-> p.result,
        color         |-> p.color,
        player_elo    |-> p.player_elo,
        opponent_elo  |-> p.opponent_elo,
        elo_diff      |-> p.opponent_elo - p.player_elo,
        rating_change |-> p.rating_change,
        opening       |-> headers_get(headers, "Opening", ""),
        eco_code      |-> headers_get(headers, "ECO", ""),
        termination   |-> headers_get(headers, "Termination", ""),
        time_control  |-> headers_get(headers, "TimeControl", <<>>),
        game_type     |-> game_type_of(tc.base_time + tc.increment * 40),
        base_time     |-> tc.base_time,
        increment     |-> tc.increment,
        total_moves   |-> entry.moves,
        site          |-> headers_get(headers, "Site", ""),
        event         |-> headers_get(headers, "Event", "")]

\* the body of the try block for one game: "skip" is the continue of an
\* untracked game, "raise" an exception caught by the except clause,
\* "record" the append of game_data (out holds the appended records)
process_game(entry) ==
    LET account == account_of(entry.headers)
        tc == parse_time_control(headers_get(entry.headers, "TimeControl", <<>>))
    IN IF account = None THEN [kind |-> "skip", out |-> <<>>]
       ELSE IF tc.raised THEN [kind |-> "raise", out |-> <<>>]
       ELSE [kind |-> "record", out |-> <<game_data_of(entry, account[1], tc)>>]

\* an except clause that gives up the records built so far
after_except_reset(built) == <<>>

\* what the except clause leaves of the list built so far: all of it
after_except(built) == built

(***************************************************************************)
(* datetime.strptime for the two formats ChessAnalyzer.parse_pgn uses.     *)
(***************************************************************************)
\* \d of a strptime pattern
IsD(c) == c \in DecimalChars

\* [a-b] of a strptime pattern, an ASCII digit between lo and hi
InRange(c, lo, hi) == c \in AsciiDigits /\ DigitValue(c) >= lo /\ DigitValue(c) <= hi

\* %Y: \d\d\d\d
IsYearToken(t) == Len(t) = 4 /\ \A i \in 1..4 : IsD(t[i])

\* %m: 1[0-2] | 0[1-9] | [1-9]
IsMonthToken(t) ==
    \/ Len(t) = 2 /\ t[1] = "1" /\ InRange(t[2], 0, 2)
    \/ Len(t) = 2 /\ t[1] = "0" /\ InRange(t[2], 1, 9)
    \/ Len(t) = 1 /\ InRange(t[1], 1, 9)

\* %d: 3[0-1] | [1-2]\d | 0[1-9] | [1-9] | " "[1-9]
IsDayToken(t) ==
    \/ Len(t) = 2 /\ t[1] = "3" /\ InRange(t[2], 0, 1)
    \/ Len(t) = 2 /\ InRange(t[1], 1, 2) /\ IsD(t[2])
    \/ Len(t) = 2 /\ t[1] = "0" /\ InRange(t[2], 1, 9)
    \/ Len(t) = 1 /\ InRange(t[1], 1, 9)
    \/ Len(t) = 2 /\ t[1] = " " /\ InRange(t[2], 1, 9)

\* %H: 2[0-3] | [0-1]\d | \d
IsHourToken(t) ==
    \/ Len(t) = 2 /\ t[1] = "2" /\ InRange(t[2], 0, 3)
    \/ Len(t) = 2 /\ InRange(t[1], 0, 1) /\ IsD(t[2])
    \/ Len(t) = 1 /\ IsD(t[1])

\* %M: [0-5]\d | \d
IsMinuteToken(t) ==
    \/ Len(t) = 2 /\ InRange(t[1], 0, 5) /\ IsD(t[2])
    \/ Len(t) = 1 /\ IsD(t[1])

\* %S: 6[0-1] | [0-5]\d | \d
IsSecondToken(t) ==
    \/ Len(t) = 2 /\ t[1] = "6" /\ InRange(t[2], 0, 1)
    \/ IsMinuteToken(t)

IsLeapYear(y) == (y % 4 = 0 /\ y % 100 # 0) \/ y % 400 = 0

DaysInMonth(y, m) ==
    IF m = 2 THEN (IF IsLeapYear(y) THEN 29 ELSE 28)
    ELSE IF m \in {4, 6, 9, 11} THEN 30 ELSE 31

\* datetime.strptime(s, '%Y.%m.%d'): None stands for ValueError
strptime_date(s) ==
    LET parts == split(s, ".")
        shaped == /\ Len(parts) = 3
                  /\ IsYearToken(parts[1])
                  /\ IsMonthToken(parts[2])
                  /\ IsDayToken(parts[3])
        y == int_str(parts[1]).val
        m == int_str(parts[2]).val
        d == int_str(parts[3]).val
    IN IF shaped /\ y >= 1 /\ d <= DaysInMonth(y, m)
       THEN Some([year |-> y, month |-> m, day |-> d])
       ELSE None

\* the '%H:%M:%S' part: None stands for ValueError
strptime_time(s) ==
    LET parts == split(s, ":")
        shaped == /\ Len(parts) = 3
                  /\ IsHourToken(parts[1])
                  /\ IsMinuteToken(parts[2])
                  /\ IsSecondToken(parts[3])
        sec == int_str(parts[3]).val
    IN IF shaped /\ sec <= 59
       THEN Some([hour |-> int_str(parts[1]).val,
                  minute |-> int_str(parts[2]).val,
                  second |-> sec])
       ELSE None

\* datetime.strptime(f"{utc_date} {utc_time}", '%Y.%m.%d %H:%M:%S'); the blank
\* of the format matches any run of whitespace
strptime_datetime(utc_date, utc_time) ==
    LET d == strptime_date(rstrip(utc_date))
        t == strptime_time(lstrip(utc_time))
    IN IF d # None /\ t # None
       THEN Some([year |-> d[1].year, month |-> d[1].month, day |-> d[1].day,
                  hour |-> t[1].hour, minute |-> t[1].minute, second |-> t[1].second])
       ELSE None

\* date.replace('?', '01')
RECURSIVE replace_question_marks(_)
replace_question_marks(s) ==
    IF Len(s) = 0 THEN <<>>
    ELSE (IF s[1] = "?" THEN <<"0", "1">> ELSE <<s[1]>>)
         \o replace_question_marks(Tail(s))

(***************************************************************************)
(* ChessAnalyzer.parse_pgn: one pass of the read loop over one raw entry.  *)
(***************************************************************************)
Unknown == <<"U", "n", "k", "n", "o", "w", "n">>

\* int(headers.get(key, 0)) if headers.get(key, '0').isdigit() else 0
elo_of(headers, key) ==
    IF key \in DOMAIN headers
    THEN IF isdigit(headers[key]) THEN int_str(headers[key])
         ELSE [raised |-> FALSE, val |-> 0]
    ELSE [raised |-> FALSE, val |-> 0]

\* the try block around the Date header
game_date_of(date) ==
    IF date # <<"?", "?", "?", "?">>
    THEN strptime_date(replace_question_marks(date))
    ELSE None

\* the block around UTCDate / UTCTime
game_time_of(headers) ==
    IF /\ "UTCDate" \in DOMAIN headers /\ headers["UTCDate"] # <<>>
       /\ "UTCTime" \in DOMAIN headers /\ headers["UTCTime"] # <<>>
    THEN strptime_datetime(headers["UTCDate"], headers["UTCTime"])
    ELSE None

\* the game_data dictionary of ChessAnalyzer.parse_pgn
analyzer_game_data(entry, number) ==
    LET headers == entry.headers
    IN [white_player |-> headers_get(headers, "White", "Unknown"),
        black_player |-> headers_get(headers, "Black", "Unknown"),
        result       |-> headers_get(headers, "Result", "*"),
        white_elo    |-> elo_of(headers, "WhiteElo").val,
        black_elo    |-> elo_of(headers, "BlackElo").val,
        date         |-> game_date_of(headers_get(headers, "Date", <<"?", "?", "?", "?">>)),
        time         |-> game_time_of(headers),
        time_control |-> headers_get(headers, "TimeControl", Unknown),
        termination  |-> headers_get(headers, "Termination", "Unknown"),
        opening      |-> headers_get(headers, "Opening", "Unknown"),
        eco          |-> headers_get(headers, "ECO", "Unknown"),
        moves        |-> entry.moves,
        game_number  |-> number]

\* the body of the try block for one game: "raise" is an exception caught by
\* the except clause, "record" the append of game_data
analyzer_process_game(entry, number) ==
    IF elo_of(entry.headers, "WhiteElo").raised \/ elo_of(entry.headers, "BlackElo").raised
    THEN [kind |-> "raise", out |-> <<>>]
    ELSE [kind |-> "record", out |-> <<analyzer_game_data(entry, number)>>]

(***************************************************************************)
(* ChessAnalyzer.prepare_player_data: one row per tracked side of a game.  *)
(***************************************************************************)
\* the white-perspective row of a game: game.copy() and the player fields
white_row(game) ==
    [player        |-> game.white_player,
     player_color  |-> "white",
     player_elo    |-> game.white_elo,
     opponent      |-> game.black_player,
     opponent_elo  |-> game.black_elo,
     player_result |-> IF game.result = "1-0" THEN "win"
                       ELSE IF game.result = "0-1" THEN "loss" ELSE "draw"] @@ game

\* black_row with the ratings of the white perspective
black_row_unswapped(game) ==
    [player        |-> game.black_player,
     player_color  |-> "black",
     player_elo    |-> game.white_elo,
     opponent      |-> game.white_player,
     opponent_elo  |-> game.black_elo,
     player_result |-> IF game.result = "0-1" THEN "win"
                       ELSE IF game.result = "1-0" THEN "loss" ELSE "draw"] @@ game

\* the black-perspective row of a game: game.copy() and the player fields
black_row(game) ==
    [player        |-> game.black_player,
     player_color  |-> "black",
     player_elo    |-> game.black_elo,
     opponent      |-> game.white_player,
     opponent_elo  |-> game.white_elo,
     player_result |-> IF game.result = "0-1" THEN "win"
                       ELSE IF game.result = "1-0" THEN "loss" ELSE "draw"] @@ game

\* the rows one game contributes, white perspective first
player_rows(game) ==
    (IF game.white_player \in tracked_accounts THEN <<white_row(game)>> ELSE <<>>)
    \o (IF game.black_player \in tracked_accounts THEN <<black_row(game)>> ELSE <<>>)

RECURSIVE player_games_of(_)
player_games_of(df) ==
    IF Len(df) = 0 THEN <<>>
    ELSE player_rows(Head(df)) \o player_games_of(Tail(df))

\* date.toordinal(): days since 0001-01-01, which is day 1
RECURSIVE DaysBeforeMonth(_, _)
DaysBeforeMonth(y, m) ==
    IF m = 1 THEN 0 ELSE DaysBeforeMonth(y, m - 1) + DaysInMonth(y, m - 1)

toordinal(d) ==
    LET y == d.year - 1
    IN y * 365 + (y \div 4) - (y \div 100) + (y \div 400)
       + DaysBeforeMonth(d.year, d.month) + d.day

\* .dt.dayofweek: Monday is 0
dayofweek(d) == (toordinal(d) + 6) % 7

\* the columns added after the rows are collected: rating_diff and win_rate,
\* month / weekday / is_weekend when some row has a date, hour when some row
\* has a time; a row without the value holds None (NaN) in the column
derived_columns(row, any_date, any_time) ==
    [rating_diff |-> row.player_elo - row.opponent_elo,
     win_rate    |-> IF row.player_result = "win" THEN 1 ELSE 0]
    @@ (IF any_date
        THEN [month      |-> IF row.date = None THEN None ELSE Some(row.date[1].month),
              weekday    |-> IF row.date = None THEN None ELSE Some(dayofweek(row.date[1])),
              is_weekend |-> row.date # None /\ dayofweek(row.date[1]) \in {5, 6}]
        ELSE <<>>)
    @@ (IF any_time
        THEN [hour |-> IF row.time = None THEN None ELSE Some(row.time[1].hour)]
        ELSE <<>>)
    @@ row

prepare_player_data(df) ==
    LET rows == player_games_of(df)
        any_date == \E i \in 1..Len(rows) : rows[i].date # None
        any_time == \E i \in 1..Len(rows) : rows[i].time # None
    IN [i \in 1..Len(rows) |-> derived_columns(rows[i], any_date, any_time)]

(***************************************************************************)
(* The derivers: advanced_time_analysis, generate_advanced_insights and    *)
(* analyze_combined_data over the frame built from the parsed games.       *)
(***************************************************************************)
\* pd.DataFrame(all_games): the rows in list order under the labels 0, 1, ...
DataFrame(all_games) ==
    [i \in 1..Len(all_games) |-> [index |-> i - 1] @@ all_games[i]]

\* one element of pd.to_datetime(df['utc_date'] + ' ' + df['utc_time']): the
\* joined text is a zero-padded "YYYY.MM.DD HH:MM:SS" or it does not parse
\* (None); the texts explored are of the first kind, have no digits at all
\* or are the lone blank of two missing tags
to_datetime_element(utc_date, utc_time) == strptime_datetime(utc_date, utc_time)

\* Timestamp ordering and subtraction: seconds since 1970-01-01 00:00:00,
\* the day of ordinal 719163
total_seconds(ts) ==
    (toordinal(ts) - 719163) * 86400 + ts.hour * 3600 + ts.minute * 60 + ts.second

\* .dt.day_name()
day_name(ts) ==
    <<"Monday", "Tuesday", "Wednesday", "Thursday", "Friday", "Saturday",
      "Sunday">>[dayofweek(ts) + 1]

\* .dt.dayofyear
dayofyear(ts) == DaysBeforeMonth(ts.year, ts.month) + ts.day

\* the ISO year y has 53 weeks when January 1 is a Thursday, or a Wednesday
\* of a leap year
iso_weeks_in_year(y) ==
    LET jan1 == dayofweek([year |-> y, month |-> 1, day |-> 1])
    IN IF jan1 = 3 \/ (jan1 = 2 /\ IsLeapYear(y)) THEN 53 ELSE 52

\* .dt.isocalendar().week
isocalendar_week(ts) ==
    LET w == (dayofyear(ts) - (dayofweek(ts) + 1) + 10) \div 7
    IN IF w < 1 THEN iso_weeks_in_year(ts.year - 1)
       ELSE IF w > iso_weeks_in_year(ts.year) THEN 1
       ELSE w

\* .dt.quarter
quarter(ts) == (ts.month - 1) \div 3 + 1

\* a mapping whose Night runs to the end of the day
get_time_period_night_to_midnight(hour) ==
    IF 5 <= hour /\ hour < 9 THEN "Early Morning"
    ELSE IF 9 <= hour /\ hour < 12 THEN "Late Morning"
    ELSE IF 12 <= hour /\ hour < 14 THEN "Lunch Time"
    ELSE IF 14 <= hour /\ hour < 17 THEN "Afternoon"
    ELSE IF 17 <= hour /\ hour < 20 THEN "Evening"
    ELSE IF 20 <= hour /\ hour <= 23 THEN "Night"
    ELSE "Late Night"

\* get_time_period of advanced_time_analysis
get_time_period(hour) ==
    IF 5 <= hour /\ hour < 9 THEN "Early Morning"
    ELSE IF 9 <= hour /\ hour < 12 THEN "Late Morning"
    ELSE IF 12 <= hour /\ hour < 14 THEN "Lunch Time"
    ELSE IF 14 <= hour /\ hour < 17 THEN "Afternoon"
    ELSE IF 17 <= hour /\ hour < 20 THEN "Evening"
    ELSE IF 20 <= hour /\ hour < 23 THEN "Night"
    ELSE "Late Night"

\* get_time_period of generate_advanced_insights
insights_get_time_period(hour) ==
    IF 5 <= hour /\ hour < 9 THEN "Early Morning"
    ELSE IF 9 <= hour /\ hour < 12 THEN "Late Morning"
    ELSE IF 12 <= hour /\ hour < 14 THEN "Lunch Time"
    ELSE IF 14 <= hour /\ hour < 17 THEN "Afternoon"
    ELSE IF 17 <= hour /\ hour < 20 THEN "Evening"
    ELSE IF 20 <= hour /\ hour < 23 THEN "Night"
    ELSE "Late Night"

\* get_time_period of analyze_combined_data
combined_get_time_period(hour) ==
    IF 5 <= hour /\ hour < 9 THEN "Early Morning"
    ELSE IF 9 <= hour /\ hour < 12 THEN "Late Morning"
    ELSE IF 12 <= hour /\ hour < 14 THEN "Lunch Time"
    ELSE IF 14 <= hour /\ hour < 17 THEN "Afternoon"
    ELSE IF 17 <= hour /\ hour < 20 THEN "Evening"
    ELSE IF 20 <= hour /\ hour < 23 THEN "Night"
    ELSE "Late Night"

\* get_weekend_weekday; the other two derivers use the same test in a lambda
get_weekend_weekday(day) ==
    IF day \in {"Saturday", "Sunday"} THEN "Weekend" ELSE "Weekday"

\* get_season
get_season(month) ==
    IF month \in {12, 1, 2} THEN "Winter"
    ELSE IF month \in {3, 4, 5} THEN "Spring"
    ELSE IF month \in {6, 7, 8} THEN "Summer"
    ELSE "Autumn"

\* str ordering of the account values a record can hold: 'Cassiny' < 'IsmatS'
account_order == <<"Cassiny", "IsmatS">>

account_rank(account) == CHOOSE r \in 1..Len(account_order) : account_order[r] = account

\* a comparison by timestamp alone
row_precedes_by_datetime(a, b) == total_seconds(a.datetime) < total_seconds(b.datetime)

\* a comparison under which a row also goes before the rows it ties with
row_precedes_or_ties(a, b) ==
    \/ account_rank(a.account) < account_rank(b.account)
    \/ /\ a.account = b.account
       /\ total_seconds(a.datetime) <= total_seconds(b.datetime)

\* the comparison of sort_values(['account', 'datetime']): a sorts strictly
\* before b
row_precedes(a, b) ==
    \/ account_rank(a.account) < account_rank(b.account)
    \/ /\ a.account = b.account
       /\ total_seconds(a.datetime) < total_seconds(b.datetime)

\* one row placed into rows already in order, behind every row that does
\* not sort after it
RECURSIVE sort_insert(_, _)
sort_insert(sorted, row) ==
    IF sorted = <<>> THEN <<row>>
    ELSE IF row_precedes(row, sorted[1]) THEN <<row>> \o sorted
    ELSE <<sorted[1]>> \o sort_insert(Tail(sorted), row)

\* df.sort_values(['account', 'datetime']): a new frame, the rows keep their
\* labels; the sort over several keys is a lexsort
RECURSIVE sort_values(_)
sort_values(frame) ==
    IF frame = <<>> THEN <<>>
    ELSE sort_insert(sort_values(SubSeq(frame, 1, Len(frame) - 1)), frame[Len(frame)])

\* the row before row k in the frame, whatever its account (0: none)
frame_previous(frame, k) == k - 1

\* the row before row k among the rows of k's account (0: none)
groupby_previous(frame, k) ==
    LET same == {j \in 1..(k - 1) : frame[j].account = frame[k].account}
    IN IF same = {} THEN 0 ELSE CHOOSE j \in same : \A i \in same : i <= j

\* row k of df_sorted.groupby('account')['datetime'].diff(), in seconds;
\* None is NaT
groupby_diff(frame, k) ==
    LET j == groupby_previous(frame, k)
    IN IF j = 0 THEN None
       ELSE Some(total_seconds(frame[k].datetime) - total_seconds(frame[j].datetime))

\* .dt.total_seconds() / 3600 as the exact quotient num / den; None is NaN
total_hours(gap) ==
    IF gap = None THEN None ELSE Some([num |-> gap[1], den |-> 3600])

\* the session break of advanced_time_analysis, in hours
session_break_hours == 1

\* the session break of generate_advanced_insights, in hours
insights_session_break_hours == 2

\* a break test that also fires at the threshold itself
new_session_inclusive(hours, threshold) ==
    \/ hours = None
    \/ hours # None /\ hours[1].num >= threshold * hours[1].den

\* (hours > threshold) | hours.isna()
new_session(hours, threshold) ==
    \/ hours = None
    \/ hours # None /\ hours[1].num > threshold * hours[1].den

\* the running count of new_session over all rows up to row k
frame_cumsum(frame, k) == Cardinality({j \in 1..k : frame[j].new_session})

\* row k of df_sorted.groupby('account')['new_session'].cumsum()
groupby_cumsum(frame, k) ==
    Cardinality({j \in 1..k : /\ frame[j].account = frame[k].account
                              /\ frame[j].new_session})

\* the two gap columns, computed over the sorted frame
with_time_since_last_game(frame) ==
    [k \in 1..Len(frame) |->
        [time_since_last_game       |-> groupby_diff(frame, k),
         time_since_last_game_hours |-> total_hours(groupby_diff(frame, k))]
        @@ frame[k]]

\* the new_session column
with_new_session(frame, threshold) ==
    [k \in 1..Len(frame) |->
        [new_session |-> new_session(frame[k].time_since_last_game_hours, threshold)]
        @@ frame[k]]

\* the new_session column and then the session_id column
with_sessions(frame, threshold) ==
    CHOOSE result \in {[k \in 1..Len(flagged) |->
                          [session_id |-> groupby_cumsum(flagged, k)] @@ flagged[k]] :
                       flagged \in {with_new_session(frame, threshold)}} : TRUE

\* pd.to_datetime over the whole column raises when the frame has no
\* utc_date column (no rows) or some element does not parse
to_datetime_raises(frame) ==
    \/ frame = <<>>
    \/ \E i \in 1..Len(frame) :
          to_datetime_element(frame[i].utc_date, frame[i].utc_time) = None

datetime_of(row) == to_datetime_element(row.utc_date, row.utc_time)[1]

\* an assignment that also overwrites the date column of the input
advanced_columns_over_date(row, ts) ==
    [datetime        |-> ts,
     date            |-> row.utc_date,
     hour            |-> ts.hour,
     minute          |-> ts.minute,
     day_of_week     |-> day_name(ts),
     day_of_year     |-> dayofyear(ts),
     week_of_year    |-> isocalendar_week(ts),
     month           |-> ts.month,
     quarter         |-> quarter(ts),
     year            |-> ts.year,
     time_period     |-> get_time_period(ts.hour),
     weekend_weekday |-> get_weekend_weekday(day_name(ts)),
     season          |-> get_season(ts.month)]
    @@ row

\* the columns advanced_time_analysis assigns to df
advanced_columns(row, ts) ==
    [datetime        |-> ts,
     hour            |-> ts.hour,
     minute          |-> ts.minute,
     day_of_week     |-> day_name(ts),
     day_of_year     |-> dayofyear(ts),
     week_of_year    |-> isocalendar_week(ts),
     month           |-> ts.month,
     quarter         |-> quarter(ts),
     year            |-> ts.year,
     time_period     |-> get_time_period(ts.hour),
     weekend_weekday |-> get_weekend_weekday(day_name(ts)),
     season          |-> get_season(ts.month)]
    @@ row

\* the frame after the assignments of advanced_time_analysis
advanced_assigned(input) ==
    [i \in 1..Len(input) |-> advanced_columns(input[i], datetime_of(input[i]))]

\* the columns generate_advanced_insights assigns to df
insights_columns(row, ts) ==
    [datetime        |-> ts,
     hour            |-> ts.hour,
     day_of_week     |-> day_name(ts),
     month           |-> ts.month,
     year            |-> ts.year,
     time_period     |-> insights_get_time_period(ts.hour),
     season          |-> get_season(ts.month),
     weekend_weekday |-> get_weekend_weekday(day_name(ts))]
    @@ row

\* the frame after the assignments of generate_advanced_insights
insights_assigned(input) ==
    [i \in 1..Len(input) |-> insights_columns(input[i], datetime_of(input[i]))]

\* the columns analyze_combined_data assigns to df
combined_columns(row, ts) ==
    [datetime        |-> ts,
     hour            |-> ts.hour,
     day_of_week     |-> day_name(ts),
     month           |-> ts.month,
     year            |-> ts.year,
     time_period     |-> combined_get_time_period(ts.hour),
     weekend_weekday |-> get_weekend_weekday(day_name(ts))]
    @@ row

\* the frame after the assignments of analyze_combined_data
combined_assigned(input) ==
    [i \in 1..Len(input) |-> combined_columns(input[i], datetime_of(input[i]))]

(***************************************************************************)
(* Raw entries.                                                            *)
(***************************************************************************)
NoDate == <<"?", "?", "?", "?", ".", "?", "?", ".", "?", "?">>

\* the headers of a game whose source gave only the players and the result
Roster(white, black, result) ==
    [Event |-> "?", Site |-> "?", Date |-> NoDate, Round |-> "?",
     White |-> white, Black |-> black, Result |-> result]

\* headers h with tag key set to value; "absent" leaves the tag out
WithTag(h, key, value) == IF value = <<"absent">> THEN h ELSE (key :> value) @@ h

Absent == <<"absent">>

Names == {"IsmatS", "Cassiny", "Bot", "?"}

Results == {"1-0", "0-1", "1/2-1/2", "*", ""}

\* every pairing (no tracked account against itself) and result, no optional tag
NameEntries ==
    {[headers |-> Roster(p[1], p[2], r), moves |-> 0] :
        p \in {q \in Names \X Names : q[1] # q[2] \/ q[1] \notin tracked_accounts},
        r \in Results}

EloStrings ==
    {Absent, <<"1", "5", "0", "0">>, <<"9", "8", "7">>, <<>>, <<"a", "b">>,
     <<"sup2">>, <<"1", "2", ".", "5">>, <<"1", "_", "0">>}

DiffStrings ==
    {Absent, <<"-", "7">>, <<"+", "8">>, <<"x">>, <<" ", "1", "2", " ">>, <<"ar3">>}

Pairings == {<<"IsmatS", "Bot">>, <<"Bot", "Cassiny">>, <<"Cassiny", "IsmatS">>}

\* tracked games over the rating tags
RatingEntries ==
    {[headers |->
         WithTag(WithTag(WithTag(WithTag(Roster(p[1], p[2], "1-0"),
             "WhiteElo", we), "BlackElo", be), "WhiteRatingDiff", wd), "BlackRatingDiff", bd),
      moves |-> 1] :
        p \in Pairings, we \in EloStrings, be \in EloStrings,
        wd \in DiffStrings, bd \in DiffStrings}

TimeControlStrings ==
    {Absent, <<>>, <<"-">>, <<"a", "b", "c">>, <<" ", "6">>, <<"1", "_", "0">>,
     <<"sup2">>, <<"ar3">>, <<"0">>,
     <<"1", "7", "9">>, <<"1", "8", "0">>, <<"5", "9", "9">>, <<"6", "0", "0">>,
     <<"1", "7", "9", "9">>, <<"1", "8", "0", "0">>,
     <<"5", "9", "+", "3">>, <<"6", "0", "+", "3">>,
     <<"0", "+", "1", "4">>, <<"0", "+", "1", "5">>,
     <<"0", "+", "4", "4">>, <<"0", "+", "4", "5">>,
     <<"3", "0", "0", "+", "0">>, <<"-", "5", "+", "3">>, <<" ", "6", "0", " ", "+", " ", "1">>,
     <<"1", "_", "0", "+", "2">>, <<"ar3", "+", "ar3">>,
     <<"5", "+">>, <<"+", "5">>, <<"+">>, <<"a", "+", "b">>, <<"5", "+", "x">>,
     <<"1", "+", "2", "+", "3">>, <<"5", "+", "3", "+">>, <<"1", "+", "sup2">>}

\* tracked and untracked games over the TimeControl tag
TimeControlEntries ==
    {[headers |-> WithTag(Roster(p[1], p[2], "0-1"), "TimeControl", tc), moves |-> 2] :
        p \in Pairings \cup {<<"Bot", "?">>}, tc \in TimeControlStrings}

\* every entry explored on its own
\* tracked games over the Opening, ECO and Termination tags: all three present,
\* present and empty, and only one of them present
SicilianDefense == <<"S", "i", "c", "i", "l", "i", "a", "n">>
B20 == <<"B", "2", "0">>
Normal == <<"N", "o", "r", "m", "a", "l">>

OpeningEntries ==
    {[headers |-> WithTag(WithTag(WithTag(Roster(p[1], p[2], "1-0"), "Opening", t[1]),
                                  "ECO", t[2]), "Termination", t[3]),
      moves |-> 2] :
        p \in Pairings,
        t \in {<<SicilianDefense, B20, Normal>>, <<<<>>, <<>>, <<>>>>,
               <<Absent, B20, Absent>>}}

SingleEntries == NameEntries \cup RatingEntries \cup TimeControlEntries \cup OpeningEntries

\* a well-formed UTCDate / UTCTime pair and Date tag
Date20240309 == <<"2", "0", "2", "4", ".", "0", "3", ".", "0", "9">>
Time213005 == <<"2", "1", ":", "3", "0", ":", "0", "5">>

\* the entries that sources of several games are built from
SeqEntries ==
    {[headers |-> Roster("IsmatS", "Bot", "1-0"), moves |-> 0],
     [headers |-> Roster("Bot", "Cassiny", "1-0"), moves |-> 0],
     [headers |-> Roster("Untracked", "Untracked", "1-0"), moves |-> 0],
     [headers |-> ("WhiteElo" :> <<"1", "5", "0", "0">>) @@ ("BlackElo" :> <<"9", "8", "7">>)
                  @@ ("UTCDate" :> Date20240309) @@ ("UTCTime" :> Time213005)
                  @@ Roster("IsmatS", "Cassiny", "0-1"),
      moves |-> 3],
     [headers |-> ("TimeControl" :> <<"5", "+">>) @@ Roster("IsmatS", "Bot", "0-1"),
      moves |-> 1],
     [headers |-> ("WhiteElo" :> <<"sup2">>) @@ Roster("Bot", "Cassiny", "0-1"),
      moves |-> 1],
     [headers |-> ("WhiteElo" :> <<"1", "5", "0", "0">>)
                  @@ ("TimeControl" :> <<"1", "8", "0", "+", "2">>)
                  @@ ("Date" :> Date20240309) @@ Roster("Cassiny", "Bot", "1/2-1/2"),
      moves |-> 2],
     [headers |-> ("TimeControl" :> <<"sup2">>) @@ ("BlackElo" :> <<"a", "b">>)
                  @@ Roster("Bot", "IsmatS", "*"),
      moves |-> 1]}

\* a game with its UTCDate and UTCTime tags
TimedGame(white, black, result, utc_date, utc_time) ==
    [headers |-> ("UTCDate" :> utc_date) @@ ("UTCTime" :> utc_time)
                 @@ Roster(white, black, result),
     moves |-> 1]

Date20240310 == <<"2", "0", "2", "4", ".", "0", "3", ".", "1", "0">>
Time223005 == <<"2", "2", ":", "3", "0", ":", "0", "5">>
Time230000 == <<"2", "3", ":", "0", "0", ":", "0", "0">>
Time233005 == <<"2", "3", ":", "3", "0", ":", "0", "5">>
Time003005 == <<"0", "0", ":", "3", "0", ":", "0", "5">>
Time003006 == <<"0", "0", ":", "3", "0", ":", "0", "6">>
Time023006 == <<"0", "2", ":", "3", "0", ":", "0", "6">>

\* games of the tracked accounts around one night: IsmatS at 22:30:05 and
\* one hour, two hours, two hours and a second and four hours and a second
\* later (the last three past midnight), a second IsmatS game at 22:30:05
\* played as Black, a Cassiny game in between, and a game whose UTCDate is
\* no date
TimedEntries ==
    {TimedGame("IsmatS", "Bot", "1-0", Date20240309, Time223005),
     TimedGame("Bot", "IsmatS", "1-0", Date20240309, Time223005),
     TimedGame("IsmatS", "Bot", "1-0", Date20240309, Time233005),
     TimedGame("IsmatS", "Bot", "1-0", Date20240310, Time003005),
     TimedGame("IsmatS", "Bot", "1-0", Date20240310, Time003006),
     TimedGame("IsmatS", "Bot", "1-0", Date20240310, Time023006),
     TimedGame("Bot", "Cassiny", "0-1", Date20240309, Time230000),
     TimedGame("IsmatS", "Bot", "1-0", <<"a", "b">>, Time223005)}

\* the longest source built from TimedEntries
MaxTimed == 3

DigitText == <<"0", "1", "2", "3", "4", "5", "6", "7", "8", "9">>

\* one game on the hour, for every hour of the day
HourEntries ==
    {TimedGame("IsmatS", "Bot", "1-0", Date20240309,
               <<DigitText[(h \div 10) + 1], DigitText[(h % 10) + 1],
                 ":", "0", "0", ":", "0", "0">>) : h \in 0..23}

\* all sequences over S of length at most n
RECURSIVE SeqsUpTo(_, _)
SeqsUpTo(S, n) ==
    IF n = 0 THEN {<<>>}
    ELSE LET shorter == SeqsUpTo(S, n - 1)
         IN shorter \cup {Append(q, e) : q \in shorter, e \in S}

\* the PGN sources explored
Sources ==
    SeqsUpTo(SeqEntries, MaxEntries) \cup {<<e>> : e \in SingleEntries}
    \cup SeqsUpTo(TimedEntries, MaxTimed) \cup {<<e>> : e \in HourEntries}

\* the extractors: parse_pgn_file of the five scripts that copy it, and
\* ChessAnalyzer of comprehensive_chess_analysis.py
Scripts == {"parse_pgn_file", "ChessAnalyzer"}

\* a list that keeps what an earlier call collected
kept_games(held) == held

\* games = [] at the head of parse_pgn_file: the list starts empty whatever
\* an earlier call collected
new_games(held) == <<>>

\* a counter that goes on from an earlier call's count
kept_count(count) == count

\* game_count = 0 at the head of ChessAnalyzer.parse_pgn
new_game_count(count) == 0

(***************************************************************************)
(* The state machine: one script runs over one source; after                *)
(* parse_pgn_file, main of one of the deriving scripts calls its deriver.   *)
(***************************************************************************)
Init ==
    /\ source \in Sources
    /\ script \in Scripts
    /\ pos = 1
    /\ pc = "loop"
    /\ games = new_games(<<>>)
    /\ games_data = <<>>
    /\ game_count = new_game_count(0)
    /\ players = {}
    /\ player_df = <<>>
    /\ deriver = "none"
    /\ main_df = <<>>
    /\ df_sorted = <<>>
    /\ run = 1
    /\ previous = None
    /\ results = <<>>
    /\ stage = "none"
    /\ streaks = <<>>
    /\ max_win_streak = 0
    /\ max_loss_streak = 0

\* a read that leaves the stream where it was
read_game_in_place(position) == position

\* chess.pgn.read_game(f): the stream stands behind the game it returned,
\* whatever becomes of the game afterwards
read_game(position) == position + 1

\* parse_pgn_file: read_game returned a game
ReadGame ==
    /\ script = "parse_pgn_file"
    /\ pc = "loop"
    /\ pos <= Len(source)
    /\ LET r == process_game(source[pos])
       IN games' = IF r.kind = "raise" THEN after_except(games) ELSE games \o r.out
    /\ pos' = read_game(pos)
    /\ UNCHANGED <<source, script, pc, games_data, game_count, players, player_df>>
    /\ UNCHANGED <<deriver, main_df, df_sorted, run, previous>>
    /\ UNCHANGED streak_vars

\* parse_pgn_file: read_game returned None, the loop breaks and games is returned
EndOfSource ==
    /\ script = "parse_pgn_file"
    /\ pc = "loop"
    /\ pos > Len(source)
    /\ pc' = "done"
    /\ UNCHANGED <<source, script, pos, games, games_data, game_count, players, player_df>>
    /\ UNCHANGED <<deriver, main_df, df_sorted, run, previous>>
    /\ UNCHANGED streak_vars

\* ChessAnalyzer.parse_pgn: read_game returned a game
AnalyzerReadGame ==
    /\ script = "ChessAnalyzer"
    /\ pc = "loop"
    /\ pos <= Len(source)
    /\ LET r == analyzer_process_game(source[pos], game_count)
       IN IF r.kind = "raise"
          THEN UNCHANGED <<games_data, game_count, players>>
          ELSE /\ games_data' = games_data \o r.out
               /\ game_count' = game_count + 1
               /\ players' = players \cup {r.out[1].white_player, r.out[1].black_player}
    /\ pos' = read_game(pos)
    /\ UNCHANGED <<source, script, pc, games, player_df>>
    /\ UNCHANGED <<deriver, main_df, df_sorted, run, previous>>
    /\ UNCHANGED streak_vars

\* ChessAnalyzer.parse_pgn: read_game returned None, self.df is built
AnalyzerEndOfSource ==
    /\ script = "ChessAnalyzer"
    /\ pc = "loop"
    /\ pos > Len(source)
    /\ pc' = "parsed"
    /\ UNCHANGED <<source, script, pos, games, games_data, game_count, players, player_df>>
    /\ UNCHANGED <<deriver, main_df, df_sorted, run, previous>>
    /\ UNCHANGED streak_vars

\* ChessAnalyzer.prepare_player_data over self.df
PreparePlayerData ==
    /\ script = "ChessAnalyzer"
    /\ pc = "parsed"
    /\ player_df' = prepare_player_data(games_data)
    /\ pc' = "done"
    /\ UNCHANGED <<source, script, pos, games, games_data, game_count, players>>
    /\ UNCHANGED <<deriver, main_df, df_sorted, run, previous>>
    /\ UNCHANGED streak_vars

\* the deriver raised: nothing was assigned to the frame main built, nothing
\* was returned, and main ends with the exception
Raised(name, input) ==
    /\ deriver' = name
    /\ main_df' = input
    /\ df_sorted' = <<>>
    /\ pc' = "failed"
    /\ UNCHANGED <<source, script, pos, games, games_data, game_count, players,
                   player_df, run, previous>>
    /\ UNCHANGED streak_vars

\* the deriver came to its end: the frame main built holds the assigned
\* columns, df_sorted is the sorted frame with the columns assigned to it
Returned(name, assigned, result) ==
    /\ deriver' = name
    /\ main_df' = assigned
    /\ df_sorted' = result
    /\ pc' = "derived"
    /\ UNCHANGED <<source, script, pos, games, games_data, game_count, players,
                   player_df, run, previous>>
    /\ UNCHANGED streak_vars

\* advanced_chess_analysis.py: df = pd.DataFrame(all_games), then
\* advanced_time_analysis(df) from its first statement to its return
AdvancedTimeAnalysis ==
    /\ script = "parse_pgn_file"
    /\ pc = "done"
    /\ deriver \in {"none", "advanced_time_analysis"}
    /\ \E input \in {DataFrame(games)} :
          IF to_datetime_raises(input)
          THEN Raised("advanced_time_analysis", input)
          ELSE \E assigned \in {advanced_assigned(input)} :
               \E sorted \in {sort_values(assigned)} :
               \E gaps \in {with_time_since_last_game(sorted)} :
                  Returned("advanced_time_analysis", assigned,
                           with_sessions(gaps, session_break_hours))

\* generate_advanced_insights.py: df = pd.DataFrame(all_games), then
\* generate_advanced_insights(df) up to its session columns; the text it
\* builds from the frames is not modelled
GenerateAdvancedInsights ==
    /\ script = "parse_pgn_file"
    /\ pc = "done"
    /\ deriver \in {"none", "generate_advanced_insights"}
    /\ \E input \in {DataFrame(games)} :
          IF to_datetime_raises(input)
          THEN Raised("generate_advanced_insights", input)
          ELSE \E assigned \in {insights_assigned(input)} :
               \E sorted \in {sort_values(assigned)} :
               \E gaps \in {with_time_since_last_game(sorted)} :
                  Returned("generate_advanced_insights", assigned,
                           with_sessions(gaps, insights_session_break_hours))

\* create_remaining_combined_charts.py: df = pd.DataFrame(all_games), then
\* analyze_combined_data(df)
AnalyzeCombinedData ==
    /\ script = "parse_pgn_file"
    /\ pc = "done"
    /\ deriver \in {"none", "analyze_combined_data"}
    /\ \E input \in {DataFrame(games)} :
          IF to_datetime_raises(input)
          THEN Raised("analyze_combined_data", input)
          ELSE \E assigned \in {combined_assigned(input)} :
               \E sorted \in {sort_values(assigned)} :
                  Returned("analyze_combined_data", assigned,
                           with_time_since_last_game(sorted))

Next ==
    \/ ReadGame
    \/ EndOfSource
    \/ AnalyzerReadGame
    \/ AnalyzerEndOfSource
    \/ PreparePlayerData
    \/ AdvancedTimeAnalysis
    \/ GenerateAdvancedInsights
    \/ AnalyzeCombinedData

Spec == Init /\ [][Next]_vars

\* while True, seen from the stream: as long as the loop has not been left,
\* its body runs again; it reads the next game or finds none and breaks
WhileTrue ==
    /\ pc = "loop"
    /\ \/ pos <= Len(source) /\ pos' = read_game(pos) /\ pc' = pc
       \/ pos > Len(source) /\ pos' = pos /\ pc' \in {"done", "parsed"}

\* the interpreter does not stop inside the loop
LiveSpec == Spec /\ WF_<<pos, pc>>(WhileTrue)

\* the script has ended: a deriver returned or raised, or ChessAnalyzer has
\* prepared its player rows
Terminal ==
    \/ pc \in {"derived", "failed"}
    \/ script = "ChessAnalyzer" /\ pc = "done"

\* what a run leaves behind
Output ==
    [pc |-> pc, games |-> games, games_data |-> games_data, players |-> players,
     player_df |-> player_df, df |-> main_df, df_sorted |-> df_sorted]

\* the same script is started again over the same source: every name is
\* bound anew by the code that first assigns it
Rerun ==
    /\ run = 1
    /\ Terminal
    /\ run' = 2
    /\ previous' = Some(Output)
    /\ pos' = 1
    /\ pc' = "loop"
    /\ games' = new_games(games)
    /\ games_data' = <<>>
    /\ game_count' = new_game_count(game_count)
    /\ players' = {}
    /\ player_df' = <<>>
    /\ main_df' = <<>>
    /\ df_sorted' = <<>>
    /\ UNCHANGED <<source, script, deriver>>
    /\ UNCHANGED streak_vars

RerunNext == Next \/ Rerun

\* one run, or one run and a second run of the same script over the same source
RerunSpec == Init /\ [][RerunNext]_vars

(***************************************************************************)
(* Properties.                                                             *)
(***************************************************************************)
\* the allow-list of tracked identities
AllowList == {"IsmatS", "Cassiny"}

WhiteTracked(entry) == entry.headers["White"] \in AllowList
BlackTracked(entry) == entry.headers["Black"] \in AllowList
Tracked(entry) == WhiteTracked(entry) \/ BlackTracked(entry)

Last(q) == q[Len(q)]

\* a pass of the read loop of parse_pgn_file over source[pos]
ParseStep == script = "parse_pgn_file" /\ pc = "loop" /\ pos <= Len(source) /\ pos' = pos + 1

\* a pass of the read loop of ChessAnalyzer.parse_pgn over source[pos]
AnalyzerStep == script = "ChessAnalyzer" /\ pc = "loop" /\ pos <= Len(source) /\ pos' = pos + 1

\* the pass appended exactly one record to games and kept the earlier ones
Emitted == Len(games') = Len(games) + 1 /\ SubSeq(games', 1, Len(games)) = games

\* processing the entry raises in parse_pgn_file
Raises(entry) == process_game(entry).kind = "raise"

\* processing the entry raises in ChessAnalyzer.parse_pgn
AnalyzerRaises(entry) == analyzer_process_game(entry, 0).kind = "raise"

\* C1: in parse_pgn_file an entry with neither name in the allow-list appends
\* nothing: after any prefix of the source the number of records is the number
\* of entries read so far that were processed without an exception and have a
\* tracked side.
C1_UntrackedYieldNothing ==
    script = "parse_pgn_file" =>
        Len(games) = Cardinality({i \in 1..(pos - 1) :
                                     Tracked(source[i]) /\ ~Raises(source[i])})

\* C1 witness: a finished run over tracked and untracked entries, with records
C1_Witness ==
    /\ script = "parse_pgn_file" /\ pc = "done"
    /\ \E i \in 1..Len(source) : ~Tracked(source[i])
    /\ \E i \in 1..Len(source) : Tracked(source[i])
    /\ Len(games) >= 1 /\ Len(games) < Len(source)

\* the truth table of the outcome, by side
OutcomeTable(result, side) ==
    IF side = "white"
    THEN (CASE result = "1-0" -> "win" [] result = "0-1" -> "loss" [] OTHER -> "draw")
    ELSE (CASE result = "0-1" -> "win" [] result = "1-0" -> "loss" [] OTHER -> "draw")

\* the outcome of every record of parse_pgn_file follows the table
C2_ParseOutcome ==
    ParseStep /\ Len(games') > Len(games) =>
        Last(games').result = OutcomeTable(source[pos].headers["Result"], Last(games').color)

\* the outcome of every row of prepare_player_data follows the table
C2_RowOutcome ==
    \A i \in 1..Len(player_df) :
        player_df[i].player_result = OutcomeTable(player_df[i].result, player_df[i].player_color)

RowsOf(g) == {i \in 1..Len(player_df) : player_df[i].game_number = g}

\* parse_pgn_file: a game yields at most one record, and a game between two
\* tracked identities that raises no exception yields the White perspective
C3_ParseAtMostOne ==
    ParseStep =>
        /\ Len(games') <= Len(games) + 1
        /\ WhiteTracked(source[pos]) /\ BlackTracked(source[pos]) /\ ~Raises(source[pos]) =>
              /\ Emitted
              /\ Last(games').account = source[pos].headers["White"]
              /\ Last(games').color = "white"

TagInt(headers, key) ==
    IF key \notin DOMAIN headers THEN 0
    ELSE IF int_str(headers[key]).raised THEN 0
    ELSE int_str(headers[key]).val

\* C4: a record of side white takes identity_rating from WhiteElo,
\* opponent_rating from BlackElo and rating_delta from WhiteRatingDiff; a record
\* of side black takes them from BlackElo, WhiteElo and BlackRatingDiff; a
\* negative rating diff ("-7") stays the negative integer -7.
C4_RatingsBySide ==
    [][ParseStep /\ Len(games') > Len(games) =>
         LET r == Last(games')
             h == source[pos].headers
             own == IF r.color = "white" THEN "White" ELSE "Black"
             other == IF r.color = "white" THEN "Black" ELSE "White"
         IN /\ r.color \in {"white", "black"}
            /\ r.player_elo = TagInt(h, own \o "Elo")
            /\ r.opponent_elo = TagInt(h, other \o "Elo")
            /\ r.rating_change = TagInt(h, own \o "RatingDiff")
            /\ (own \o "RatingDiff") \in DOMAIN h /\ h[own \o "RatingDiff"] = <<"-", "7">> =>
                  r.rating_change = 0 - 7]_vars

\* C4 witness: a black-side record with a negative rating change that differs
\* from what the opponent's tag holds
C4_Witness ==
    /\ script = "parse_pgn_file" /\ pc = "done" /\ Len(games) = 1
    /\ games[1].color = "black"
    /\ games[1].rating_change = 0 - 7
    /\ TagInt(source[1].headers, "WhiteRatingDiff") = 8
    /\ games[1].player_elo = 987 /\ games[1].opponent_elo = 1500

NumericTags == {"WhiteElo", "BlackElo", "WhiteRatingDiff", "BlackRatingDiff"}

\* the tag is missing, non-numeric or malformed
Malformed(headers, key) == key \notin DOMAIN headers \/ int_str(headers[key]).raised

\* the record fields a numeric tag feeds, for a record of the given side
FedBy(key, side) ==
    CASE key = "WhiteElo" ->
            {IF side = "white" THEN "player_elo" ELSE "opponent_elo", "elo_diff"}
      [] key = "BlackElo" ->
            {IF side = "white" THEN "opponent_elo" ELSE "player_elo", "elo_diff"}
      [] key = "WhiteRatingDiff" -> IF side = "white" THEN {"rating_change"} ELSE {}
      [] key = "BlackRatingDiff" -> IF side = "black" THEN {"rating_change"} ELSE {}

\* the entry with the tag set to a well-formed number
WellFormed(entry, key) == [entry EXCEPT !.headers = (key :> <<"1">>) @@ entry.headers]

\* the TimeControl tag of the entry, '' when absent
TimeControlOf(entry) == headers_get(entry.headers, "TimeControl", <<>>)

\* parse_pgn_file: a malformed numeric tag of a tracked entry (whose TimeControl
\* parses) leaves the record emitted, the fields it feeds 0 and the other
\* fields as they would be with a well-formed tag
C5_ParseTolerant ==
    ParseStep /\ Tracked(source[pos]) /\ ~parse_time_control(TimeControlOf(source[pos])).raised =>
        /\ Emitted
        /\ \A key \in NumericTags :
              Malformed(source[pos].headers, key) =>
                  LET r == Last(games')
                      w == process_game(WellFormed(source[pos], key)).out[1]
                      fed == FedBy(key, r.color)
                  IN /\ \A f \in fed \ {"elo_diff"} : r[f] = 0
                     /\ \A f \in (DOMAIN r) \ fed : r[f] = w[f]

\* ChessAnalyzer.parse_pgn: a malformed rating tag leaves the game recorded,
\* with rating 0
C5_AnalyzerTolerant ==
    AnalyzerStep =>
        /\ Len(games_data') = Len(games_data) + 1
        /\ Malformed(source[pos].headers, "WhiteElo") => Last(games_data').white_elo = 0
        /\ Malformed(source[pos].headers, "BlackElo") => Last(games_data').black_elo = 0

\* C5: a numeric header field that is missing, non-numeric or malformed never
\* makes an extractor raise or drop the record: the record is emitted, the
\* affected field is 0 and the other fields are as with a well-formed field.
C5_MalformedNumericIsZero == [][C5_ParseTolerant /\ C5_AnalyzerTolerant]_vars

\* C6: a tracked entry whose TimeControl fails to parse as integers is still
\* emitted, with base and increment 0.
C6_TimeControlFailureDefaults ==
    [][ParseStep /\ Tracked(source[pos])
          /\ parse_time_control(TimeControlOf(source[pos])).raised =>
            /\ Emitted
            /\ Last(games').base_time = 0
            /\ Last(games').increment = 0]_vars

\* a non-empty string of decimal digits
IsDecimalString(t) == Len(t) > 0 /\ \A i \in 1..Len(t) : t[i] \in DecimalChars

\* C7: for a TimeControl without '+', base is the integer value of the whole
\* string when it consists only of digits and 0 otherwise, and increment is 0;
\* for '<base>+<increment>' with two digit strings they are those two integers.
C7_TimeControlValues ==
    [][ParseStep /\ Tracked(source[pos]) =>
          LET tc == TimeControlOf(source[pos])
              parts == split(tc, "+")
          IN /\ ~contains(tc, "+") =>
                   /\ Emitted
                   /\ Last(games').base_time =
                          (IF IsDecimalString(tc) THEN DigitBodyValue(tc, 0) ELSE 0)
                   /\ Last(games').increment = 0
             /\ Len(parts) = 2 /\ IsDecimalString(parts[1]) /\ IsDecimalString(parts[2]) =>
                   /\ Emitted
                   /\ Last(games').base_time = DigitBodyValue(parts[1], 0)
                   /\ Last(games').increment = DigitBodyValue(parts[2], 0)]_vars

SpeedClasses == {"bullet", "blitz", "rapid", "classical"}

\* the half-open interval of each speed class
InSpeedClass(class, t) ==
    CASE class = "bullet" -> t < 180
      [] class = "blitz" -> 180 <= t /\ t < 600
      [] class = "rapid" -> 600 <= t /\ t < 1800
      [] class = "classical" -> t >= 1800

\* C8: the speed class of every record is the one class whose half-open
\* interval holds t = base + 40 * increment: t < 180 bullet, 180 <= t < 600
\* blitz, 600 <= t < 1800 rapid, t >= 1800 classical; (0,0) is bullet, (600,0)
\* rapid and (1800,0) classical.
C8_SpeedClass ==
    \A i \in 1..Len(games) :
        LET r == games[i]
            t == r.base_time + 40 * r.increment
        IN /\ r.game_type \in SpeedClasses
           /\ {c \in SpeedClasses : InSpeedClass(c, t)} = {r.game_type}
           /\ r.base_time = 0 /\ r.increment = 0 => r.game_type = "bullet"
           /\ r.base_time = 600 /\ r.increment = 0 => r.game_type = "rapid"
           /\ r.base_time = 1800 /\ r.increment = 0 => r.game_type = "classical"
           /\ r.base_time = 180 /\ r.increment = 0 => r.game_type = "blitz"

\* C8 witness: a record exactly on the blitz / rapid limit, reached through the
\* increment
C8_Witness ==
    /\ script = "parse_pgn_file" /\ pc = "done" /\ Len(games) = 1
    /\ games[1].base_time = 0 /\ games[1].increment = 15
    /\ games[1].game_type = "rapid"

\* the records parse_pgn_file builds from a source none of whose entries raises
RECURSIVE RecordsOf(_)
RecordsOf(src) ==
    IF Len(src) = 0 THEN <<>> ELSE process_game(Head(src)).out \o RecordsOf(Tail(src))

\* the games ChessAnalyzer.parse_pgn builds from a source none of whose entries
\* raises, numbered from n
RECURSIVE AnalyzerRecordsOf(_, _)
AnalyzerRecordsOf(src, n) ==
    IF Len(src) = 0 THEN <<>>
    ELSE <<analyzer_game_data(Head(src), n)>> \o AnalyzerRecordsOf(Tail(src), n + 1)

NotRaises(entry) == ~Raises(entry)
AnalyzerNotRaises(entry) == ~AnalyzerRaises(entry)

\* the entries read so far
ReadSoFar == SubSeq(source, 1, pos - 1)

\* C9: an entry whose processing raises is skipped alone: the records appended
\* before stay, nothing of the failing entry is appended, and the records are
\* those of the source without its failing entries, in both extractors.
C9_FailureIsolation ==
    /\ [][/\ ParseStep /\ Raises(source[pos]) => games' = games
          /\ AnalyzerStep /\ AnalyzerRaises(source[pos]) =>
                UNCHANGED <<games_data, game_count, players>>]_vars
    /\ [](/\ script = "parse_pgn_file" =>
                games = RecordsOf(SelectSeq(ReadSoFar, NotRaises))
          /\ script = "ChessAnalyzer" =>
                games_data = AnalyzerRecordsOf(SelectSeq(ReadSoFar, AnalyzerNotRaises), 0))

\* C9 witness: a finished run whose second entry raised between two entries
\* that were recorded
C9_Witness ==
    /\ script = "parse_pgn_file" /\ pc = "done"
    /\ Len(source) = 3 /\ Len(games) = 2
    /\ ~Raises(source[1]) /\ Raises(source[2]) /\ ~Raises(source[3])

\* the three entries of the end-to-end scenario
Scenario ==
    <<[headers |-> Roster("IsmatS", "Bot", "1-0"), moves |-> 0],
      [headers |-> Roster("Bot", "Cassiny", "1-0"), moves |-> 0],
      [headers |-> Roster("Untracked", "Untracked", "1-0"), moves |-> 0]>>

\* C10: extraction over (IsmatS vs Bot, 1-0), (Bot vs Cassiny, 1-0),
\* (Untracked vs Untracked) gives exactly two records, in source order:
\* (IsmatS, white, win) then (Cassiny, black, loss).
C10_EndToEnd ==
    script = "parse_pgn_file" /\ pc = "done" /\ source = Scenario =>
        /\ Len(games) = 2
        /\ games[1].account = "IsmatS" /\ games[1].color = "white" /\ games[1].result = "win"
        /\ games[2].account = "Cassiny" /\ games[2].color = "black" /\ games[2].result = "loss"

\* C10 witness: the scenario has been extracted
C10_Witness ==
    script = "parse_pgn_file" /\ pc = "done" /\ source = Scenario /\ Len(games) = 2

(***************************************************************************)
(* Properties of the derivers.                                             *)
(***************************************************************************)
\* a deriver was called and has returned or raised
DeriverEnded == pc \in {"derived", "failed"}

\* the rows of the frame that carry the label
RowsLabelled(frame, label) == {k \in 1..Len(frame) : frame[k].index = label}

\* the frame has exactly one row for every record of the list
OneRowPerRecord(frame, records) ==
    /\ Len(frame) = Len(records)
    /\ \A i \in 1..Len(records) : Cardinality(RowsLabelled(frame, i - 1)) = 1

\* the text of the record's utc_date and utc_time is no timestamp
Unparsable(row) == to_datetime_element(row.utc_date, row.utc_time) = None

\* C11: a deriver is one-to-one on every finite input, malformed dates
\* included: whenever it has been called, it has returned a frame with
\* exactly one row for every input record.
C11_OneToOne ==
    DeriverEnded => pc = "derived" /\ OneRowPerRecord(df_sorted, games)

\* C12: a record whose utc_date + ' ' + utc_time does not parse does not make
\* a deriver fail: the deriver returns, the record has its row, and the
\* timestamp and every field derived from it are null in that row.
C12_UnparsableTimestampIsNull ==
    DeriverEnded /\ (\E i \in 1..Len(games) : Unparsable(games[i])) =>
        /\ pc = "derived"
        /\ OneRowPerRecord(df_sorted, games)
        /\ \A k \in 1..Len(df_sorted) :
              Unparsable(df_sorted[k]) =>
                  /\ df_sorted[k].datetime = None
                  /\ df_sorted[k].hour = None
                  /\ df_sorted[k].day_of_week = None
                  /\ df_sorted[k].month = None
                  /\ df_sorted[k].time_period = None
                  /\ df_sorted[k].time_since_last_game = None

\* the rows of the frame before row k that have row k's account
EarlierOfAccount(frame, k) == {j \in 1..(k - 1) : frame[j].account = frame[k].account}

\* seconds from row j's timestamp to row k's
SecondsBetween(frame, j, k) ==
    total_seconds(frame[k].datetime) - total_seconds(frame[j].datetime)

\* C13: in the returned frame the records of one account stand in timestamp
\* order; the gap of an account's first record is null, the gap of each later
\* record is its timestamp minus the timestamp of the record just before it
\* among the records of the same account, and no gap is negative.
C13_GapWithinIdentity ==
    pc = "derived" =>
        \A k \in 1..Len(df_sorted) :
            /\ EarlierOfAccount(df_sorted, k) = {} =>
                   df_sorted[k].time_since_last_game = None
            /\ \A j \in EarlierOfAccount(df_sorted, k) :
                   /\ SecondsBetween(df_sorted, j, k) >= 0
                   /\ (\A i \in EarlierOfAccount(df_sorted, k) : i <= j) =>
                          df_sorted[k].time_since_last_game
                              = Some(SecondsBetween(df_sorted, j, k))

\* C13 witness: both accounts are in the returned frame, and an account's
\* record that came earlier in the input than the record before it has a gap
\* of one hour
C13_Witness ==
    /\ pc = "derived"
    /\ {df_sorted[k].account : k \in 1..Len(df_sorted)} = tracked_accounts
    /\ \E k \in 2..Len(df_sorted) :
          /\ df_sorted[k].account = df_sorted[k - 1].account
          /\ df_sorted[k].index < df_sorted[k - 1].index
          /\ df_sorted[k].time_since_last_game = Some(3600)

\* the deriver that has returned assigns session columns
HasSessions == pc = "derived" /\ deriver \in {"advanced_time_analysis", "generate_advanced_insights"}

\* the session break of the deriver that ran, in seconds
BreakSeconds ==
    IF deriver = "advanced_time_analysis" THEN session_break_hours * 3600
    ELSE insights_session_break_hours * 3600

\* row k's gap is null or above the break
BreaksSession(frame, k) ==
    \/ frame[k].time_since_last_game = None
    \/ frame[k].time_since_last_game # None
       /\ frame[k].time_since_last_game[1] > BreakSeconds

\* row j is the last row before row k with row k's account
JustBefore(frame, j, k) ==
    j \in EarlierOfAccount(frame, k) /\ \A i \in EarlierOfAccount(frame, k) : i <= j

\* C14: along the records of one account in timestamp order session_id never
\* decreases and steps by 0 or 1; it steps by 1 exactly at a record whose gap
\* is null or above the break, counting from 0, so the account's first record
\* has session_id 1.
C14_SessionSteps ==
    HasSessions =>
        \A k \in 1..Len(df_sorted) :
            /\ EarlierOfAccount(df_sorted, k) = {} => df_sorted[k].session_id = 1
            /\ \A j \in 1..(k - 1) :
                   JustBefore(df_sorted, j, k) =>
                       df_sorted[k].session_id
                           = df_sorted[j].session_id
                             + (IF BreaksSession(df_sorted, k) THEN 1 ELSE 0)

\* C14 witness: three records of one account of which the first opens
\* session 1, the second stays in it and the third opens session 2
C14_Witness ==
    /\ HasSessions
    /\ Len(df_sorted) = 3
    /\ \A k \in 1..3 : df_sorted[k].account = "IsmatS"
    /\ <<df_sorted[1].session_id, df_sorted[2].session_id, df_sorted[3].session_id>>
           = <<1, 1, 2>>

\* a record whose gap is exactly t seconds has the session of the record
\* before it, a record whose gap is t seconds and one more opens the next
BreakIsStrict(frame, t) ==
    \A k \in 1..Len(frame) : \A j \in 1..(k - 1) :
        JustBefore(frame, j, k) =>
            /\ frame[k].time_since_last_game = Some(t) =>
                   frame[k].session_id = frame[j].session_id
            /\ frame[k].time_since_last_game = Some(t + 1) =>
                   frame[k].session_id = frame[j].session_id + 1

\* C15: the break test is strict: a gap of exactly T stays in the session, a
\* gap of T and one second opens a new one, with T one hour (3600 s) in
\* advanced_time_analysis and two hours (7200 s) in generate_advanced_insights.
C15_StrictBreak ==
    /\ pc = "derived" /\ deriver = "advanced_time_analysis" =>
           BreakIsStrict(df_sorted, 3600)
    /\ pc = "derived" /\ deriver = "generate_advanced_insights" =>
           BreakIsStrict(df_sorted, 7200)

\* C15 witness: generate_advanced_insights over games at 22:30:05, two hours
\* later and another two hours and a second later: one session, then a new one
C15_Witness ==
    /\ pc = "derived"
    /\ deriver = "generate_advanced_insights"
    /\ Len(df_sorted) = 3
    /\ <<df_sorted[2].time_since_last_game, df_sorted[3].time_since_last_game>>
           = <<Some(7200), Some(7201)>>
    /\ <<df_sorted[1].session_id, df_sorted[2].session_id, df_sorted[3].session_id>>
           = <<1, 1, 2>>

\* the label the claim gives an hour of the day
PeriodLabel(hour) ==
    CASE hour \in 5..8   -> "Early Morning"
      [] hour \in 9..11  -> "Late Morning"
      [] hour \in 12..13 -> "Lunch Time"
      [] hour \in 14..16 -> "Afternoon"
      [] hour \in 17..19 -> "Evening"
      [] hour \in 20..22 -> "Night"
      [] hour \in {23} \cup 0..4 -> "Late Night"

\* the hour of the day written in the utc_time of the row
HourOfText(row) == DigitValue(row.utc_time[1]) * 10 + DigitValue(row.utc_time[2])

\* C17: time_period is total on the hours 0..23 with the labels Early
\* Morning 5-8, Late Morning 9-11, Lunch Time 12-13, Afternoon 14-16, Evening
\* 17-19, Night 20-22 and Late Night 23 and 0-4; the three copies of the
\* mapping agree, and every derived row carries the label of its hour.
C17_TimePeriod ==
    /\ \A hour \in 0..23 :
          /\ get_time_period(hour) = PeriodLabel(hour)
          /\ insights_get_time_period(hour) = PeriodLabel(hour)
          /\ combined_get_time_period(hour) = PeriodLabel(hour)
    /\ pc = "derived" =>
          \A k \in 1..Len(df_sorted) :
              /\ df_sorted[k].hour = HourOfText(df_sorted[k])
              /\ df_sorted[k].time_period = PeriodLabel(HourOfText(df_sorted[k]))

\* C17 witness: every hour of the day is the hour of some derived row; here
\* the last hour of Lunch Time, derived by analyze_combined_data
C17_Witness ==
    /\ pc = "derived"
    /\ deriver = "analyze_combined_data"
    /\ Len(df_sorted) = 1
    /\ df_sorted[1].hour = 13
    /\ df_sorted[1].time_period = "Lunch Time"

\* the columns a deriver assigns to the frame it is given
AssignedColumns ==
    {"datetime", "hour", "day_of_week", "month", "year", "time_period",
     "weekend_weekday"}
    \cup (IF deriver = "advanced_time_analysis"
          THEN {"minute", "day_of_year", "week_of_year", "quarter", "season"}
          ELSE IF deriver = "generate_advanced_insights" THEN {"season"}
          ELSE {})

\* the columns a deriver assigns to the sorted frame only
SortedOnlyColumns ==
    {"time_since_last_game", "time_since_last_game_hours"}
    \cup (IF deriver = "analyze_combined_data" THEN {}
          ELSE {"new_session", "session_id"})

\* row restricted to the columns of like
Restricted(row, like) == [c \in DOMAIN like |-> row[c]]

C19_Original ==
    pc = "derived" => \A k \in 1..Len(df_sorted) : df_sorted[k].index = k - 1

\* row k and the row behind it stand in (account, timestamp) order, 'Cassiny'
\* before 'IsmatS'
InSortedOrder(frame, k) ==
    \/ frame[k].account = "Cassiny" /\ frame[k + 1].account = "IsmatS"
    \/ /\ frame[k].account = frame[k + 1].account
       /\ SecondsBetween(frame, k, k + 1) >= 0

\* C19 amended: the returned frame holds every input record once, under its
\* input label, in the order of sort_values(['account', 'datetime']): by
\* account, then by timestamp; it is in input order only when the input
\* already was in that order.
C19_SortedOrder ==
    pc = "derived" =>
        /\ OneRowPerRecord(df_sorted, games)
        /\ \A k \in 1..(Len(df_sorted) - 1) : InSortedOrder(df_sorted, k)
        /\ \A i \in 1..Len(main_df) :
              \A k \in RowsLabelled(df_sorted, i - 1) :
                  Restricted(df_sorted[k], main_df[i]) = main_df[i]

\* C19 witness: an IsmatS game given before a Cassiny game and before an
\* earlier IsmatS game comes out last
C19_Witness ==
    /\ pc = "derived"
    /\ Len(df_sorted) = 3
    /\ <<df_sorted[1].account, df_sorted[2].account, df_sorted[3].account>>
           = <<"Cassiny", "IsmatS", "IsmatS">>
    /\ <<df_sorted[1].index, df_sorted[2].index, df_sorted[3].index>> = <<1, 2, 0>>

\* C20: the sort is stable: records of one account with equal timestamps come
\* out in the order in which the input had them, so the later of them in the
\* input has a gap of zero and the session of the earlier one.
C20_StableSort ==
    pc = "derived" =>
        \A k \in 1..Len(df_sorted) : \A l \in (k + 1)..Len(df_sorted) :
            /\ df_sorted[k].account = df_sorted[l].account
            /\ df_sorted[k].datetime = df_sorted[l].datetime
            => /\ df_sorted[k].index < df_sorted[l].index
               /\ df_sorted[l].time_since_last_game = Some(0)
               /\ HasSessions => df_sorted[l].session_id = df_sorted[k].session_id

\* C20 witness: two IsmatS games of the same second, the one played as Black
\* given first, behind a later IsmatS game: the two come out first, Black
\* before White
C20_Witness ==
    /\ pc = "derived"
    /\ Len(df_sorted) = 3
    /\ df_sorted[1].datetime = df_sorted[2].datetime
    /\ <<df_sorted[1].color, df_sorted[2].color>> = <<"black", "white">>
    /\ <<df_sorted[1].index, df_sorted[2].index, df_sorted[3].index>> = <<1, 2, 0>>

RECURSIVE OfAccount(_, _)
OfAccount(frame, account) ==
    IF frame = <<>> THEN <<>>
    ELSE (IF Head(frame).account = account THEN <<Head(frame)>> ELSE <<>>)
         \o OfAccount(Tail(frame), account)

\* the session break of the deriver that ran, in hours
BreakHours ==
    IF deriver = "advanced_time_analysis" THEN session_break_hours
    ELSE insights_session_break_hours

\* alone is what the deriver that ran gives for the frame sorted, a frame
\* that already has its timestamp column
IsDerivedFrom(alone, sorted) ==
    \E gaps \in {with_time_since_last_game(sorted)} :
        alone = IF deriver = "analyze_combined_data" THEN gaps
                ELSE with_sessions(gaps, BreakHours)

\* C21: the partitions of the accounts are independent: the rows a deriver
\* returns for one account, with their gaps and session ids, are the rows it
\* returns when the records of that account are the whole input, whatever
\* records of the other account the input holds and wherever they fall in
\* time.
C21_PartitionsIndependent ==
    pc = "derived" =>
        \A account \in tracked_accounts :
            \E sorted \in {sort_values(OfAccount(main_df, account))} :
                IsDerivedFrom(OfAccount(df_sorted, account), sorted)

\* C21 witness: a Cassiny game given between two IsmatS games, and between
\* them in time; the second IsmatS game has its gap to the first and stays in
\* its session
C21_Witness ==
    /\ HasSessions
    /\ Len(main_df) = 3
    /\ <<main_df[1].account, main_df[2].account, main_df[3].account>>
           = <<"IsmatS", "Cassiny", "IsmatS">>
    /\ total_seconds(main_df[1].datetime) < total_seconds(main_df[2].datetime)
    /\ total_seconds(main_df[2].datetime) < total_seconds(main_df[3].datetime)
    /\ df_sorted[3].time_since_last_game = Some(3600)
    /\ df_sorted[3].session_id = 1

\* a pass of the read loop of either extractor: it takes the entry at pos and
\* stays in the loop, or it finds the source at its end and leaves the loop
LoopPass ==
    \/ pos <= Len(source) /\ pos' = pos + 1 /\ pc' = "loop"
    \/ pos > Len(source) /\ pos' = pos /\ pc' # "loop"

\* C22: the extractors terminate on every finite source: each pass of the
\* read loop consumes one entry, also when the entry raises, or finds the end
\* of the source and stops, and the loop is left in the end.
C22_ExtractorTerminates ==
    /\ [][pc = "loop" => LoopPass]_vars
    /\ <>(pc # "loop")

\* C22 witness: parse_pgn_file has left the loop over three entries of which
\* the first raised, with a record of a later entry
C22_Witness ==
    /\ script = "parse_pgn_file"
    /\ pc = "done"
    /\ Len(source) = 3
    /\ Raises(source[1])
    /\ Len(games) >= 1

\* the session break of the deriver that did not run, in hours
OtherBreakHours ==
    IF deriver = "advanced_time_analysis" THEN insights_session_break_hours
    ELSE session_break_hours

\* C23: the session break is one value: the session ids a deriver assigned
\* are the ids the other session-deriving function assigns to the same sorted
\* records.
C23_OneThreshold ==
    HasSessions =>
        \A other \in {with_sessions(df_sorted, OtherBreakHours)} :
            \A k \in 1..Len(df_sorted) :
                df_sorted[k].session_id = other[k].session_id

\* the session ids of the rows of a partition
SessionIds(part) == {part[i].session_id : i \in 1..Len(part)}

\* the rows of a partition, from the second on, whose gap is above the break
BreaksIn(part) ==
    {i \in 2..Len(part) : part[i].time_since_last_game[1] > BreakSeconds}

\* the sessions of a partition are maximal runs of rows
MaximalRuns(part) ==
    /\ \A i \in 1..Len(part) : \A j \in i..Len(part) : \A k \in j..Len(part) :
          part[i].session_id = part[k].session_id =>
              part[j].session_id = part[i].session_id
    /\ \A i \in 2..Len(part) :
          part[i].session_id = part[i - 1].session_id <=> i \notin BreaksIn(part)
    /\ Len(part) > 0 => Cardinality(SessionIds(part)) = 1 + Cardinality(BreaksIn(part))

\* C24: a session is a maximal run: in an account's rows in timestamp order
\* the rows of one session_id are consecutive, two adjacent rows share their
\* session_id exactly when the gap between them is not above the break, and
\* the account has one session more than it has gaps above the break.
C24_SessionsAreMaximalRuns ==
    HasSessions =>
        \A account \in tracked_accounts :
            \A part \in {OfAccount(df_sorted, account)} : MaximalRuns(part)

\* C24 witness: advanced_time_analysis over three IsmatS games, the second
\* two hours after the first and the third a second later: sessions 1, 2, 2
C24_Witness ==
    /\ HasSessions
    /\ deriver = "advanced_time_analysis"
    /\ Len(df_sorted) = 3
    /\ <<df_sorted[2].time_since_last_game, df_sorted[3].time_since_last_game>>
           = <<Some(7200), Some(1)>>
    /\ <<df_sorted[1].session_id, df_sorted[2].session_id, df_sorted[3].session_id>>
           = <<1, 2, 2>>

\* the value a record holds for a tag under the rule "the raw header value,
\* the empty string when the tag is absent"
IsPassedThrough(value, headers, key) ==
    IF key \in DOMAIN headers THEN value = headers[key] ELSE value = ""

\* parse_pgn_file: the record of a pass holds the three tags verbatim
C25_ParsePassesThrough ==
    ParseStep /\ Len(games') > Len(games) =>
        /\ IsPassedThrough(Last(games').opening, source[pos].headers, "Opening")
        /\ IsPassedThrough(Last(games').eco_code, source[pos].headers, "ECO")
        /\ IsPassedThrough(Last(games').termination, source[pos].headers, "Termination")

\* ChessAnalyzer.parse_pgn: the game of a pass holds the three tags verbatim
C25_AnalyzerPassesThrough ==
    AnalyzerStep /\ Len(games_data') > Len(games_data) =>
        /\ IsPassedThrough(Last(games_data').opening, source[pos].headers, "Opening")
        /\ IsPassedThrough(Last(games_data').eco, source[pos].headers, "ECO")
        /\ IsPassedThrough(Last(games_data').termination, source[pos].headers, "Termination")

\* C25: in every extractor the opening name, opening code and termination
\* reason of a record equal the raw Opening, ECO and Termination header values
\* verbatim, and are the empty string when the header is absent.
C25_PassedThroughVerbatim == [][C25_ParsePassesThrough /\ C25_AnalyzerPassesThrough]_vars

\* the half of C25 that parse_pgn_file satisfies
C25_ParseHalf == [][C25_ParsePassesThrough]_vars

(***************************************************************************)
(* The consumers of the rating difference in chess_analysis.py.            *)
(***************************************************************************)
RECURSIVE stronger_opponents(_)
\* account_data[account_data['elo_diff'] > 50], reported as "vs Stronger
\* opponents (+50 elo)"
stronger_opponents(account_data) ==
    IF Len(account_data) = 0 THEN <<>>
    ELSE (IF Head(account_data).elo_diff > 50 THEN <<Head(account_data)>> ELSE <<>>)
         \o stronger_opponents(Tail(account_data))

RECURSIVE weaker_opponents(_)
\* account_data[account_data['elo_diff'] < -50], reported as "vs Weaker
\* opponents (-50 elo)"
weaker_opponents(account_data) ==
    IF Len(account_data) = 0 THEN <<>>
    ELSE (IF Head(account_data).elo_diff < -50 THEN <<Head(account_data)>> ELSE <<>>)
         \o weaker_opponents(Tail(account_data))

\* the reading the title of the chart over df['elo_diff'] gives:
\* "(Negative = Opponent Stronger)"
negative_is_opponent_stronger == TRUE

\* the records of parse_pgn_file hold opponent_elo - player_elo, and the
\* stronger / weaker opponents filters read it with that sign
C26_ParseSign ==
    /\ \A i \in 1..Len(games) : games[i].elo_diff = games[i].opponent_elo - games[i].player_elo
    /\ \A i \in 1..Len(stronger_opponents(games)) :
          stronger_opponents(games)[i].opponent_elo > stronger_opponents(games)[i].player_elo
    /\ \A i \in 1..Len(weaker_opponents(games)) :
          weaker_opponents(games)[i].opponent_elo < weaker_opponents(games)[i].player_elo

\* the rows of prepare_player_data hold opponent_elo - player_elo
C26_RowSign ==
    \A i \in 1..Len(player_df) :
        player_df[i].rating_diff = player_df[i].opponent_elo - player_df[i].player_elo

\* the chart reads a negative difference as the record's sign convention does
C26_ChartSign ==
    \A i \in 1..Len(games) :
        games[i].elo_diff < 0 /\ negative_is_opponent_stronger =>
            games[i].opponent_elo > games[i].player_elo

\* C26: one sign convention everywhere: the rating difference of every record
\* of every script is opponent_rating - identity_rating, positive for a
\* stronger opponent, and the stronger-opponents filter and the chart titled
\* "Negative = Opponent Stronger" read it with that sign.
C26_OneSignConvention == C26_ParseSign /\ C26_RowSign /\ C26_ChartSign

\* C27: the identity of every record parse_pgn_file appends is in the
\* allow-list and is the name of the side the record holds: the White header
\* when the side is white, the Black header when the side is black, and the
\* side is black only when White's name is not in the allow-list.
C27_IdentityIsTheSide ==
    [][ParseStep /\ Len(games') > Len(games) =>
          LET record == Last(games')
              headers == source[pos].headers
          IN /\ Emitted
             /\ record.account \in AllowList
             /\ record.color \in {"white", "black"}
             /\ record.color = "white" => record.account = headers["White"]
             /\ record.color = "black" =>
                   /\ record.account = headers["Black"]
                   /\ headers["White"] \notin AllowList]_vars

\* C27 witness: parse_pgn_file has emitted a black-side record for Cassiny and
\* a white-side record for IsmatS
C27_Witness ==
    /\ script = "parse_pgn_file" /\ pc = "done" /\ Len(source) = 2 /\ Len(games) = 2
    /\ games[1].color = "black" /\ games[1].account = "Cassiny"
    /\ source[1].headers["Black"] = "Cassiny" /\ source[1].headers["White"] \notin AllowList
    /\ games[2].color = "white" /\ games[2].account = "IsmatS"
    /\ source[2].headers["White"] = "IsmatS"

(***************************************************************************)
(* The streak analysis of chess_analysis.py: calculate_streaks inside      *)
(* create_charts and the streak loop of extract_hidden_gems, both over the *)
(* results of one account in datetime order.                               *)
(***************************************************************************)
\* the values of the result column
ResultTypes == {"win", "loss", "draw"}

\* the longest result list the streak analysis is run on
MaxResults == 5

\* streaks = [], current_streak = 0, current_type = None
streaks_start == [streaks |-> <<>>, current_streak |-> 0, current_type |-> None]

\* one pass of the for loop of calculate_streaks
streaks_pass(state, result) ==
    IF Some(result) = state.current_type
    THEN [state EXCEPT !.current_streak = @ + 1]
    ELSE [streaks        |-> IF state.current_streak > 0
                             THEN Append(state.streaks,
                                         <<state.current_type[1], state.current_streak>>)
                             ELSE state.streaks,
          current_streak |-> 1,
          current_type   |-> Some(result)]

RECURSIVE streaks_loop(_, _)
\* for result in results
streaks_loop(values, state) ==
    IF Len(values) = 0 THEN state
    ELSE streaks_loop(Tail(values), streaks_pass(state, Head(values)))

\* the return without the append after the loop
without_last_streak(state) == state.streaks

\* if current_streak > 0: streaks.append((current_type, current_streak));
\* return streaks
with_last_streak(state) ==
    IF state.current_streak > 0
    THEN Append(state.streaks, <<state.current_type[1], state.current_streak>>)
    ELSE state.streaks

\* calculate_streaks(results)
calculate_streaks(values) == with_last_streak(streaks_loop(values, streaks_start))

\* the built-in max of two integers
max(a, b) == IF a >= b THEN a ELSE b

\* the four counters of extract_hidden_gems before the loop
hidden_gems_start ==
    [max_win_streak |-> 0, current_win_streak |-> 0,
     max_loss_streak |-> 0, current_loss_streak |-> 0]

\* a pass of the loop in which a draw leaves the current streaks running
hidden_gems_pass_over_draws(state, result) ==
    IF result = "win"
    THEN [state EXCEPT !.current_win_streak = @ + 1,
                       !.current_loss_streak = 0,
                       !.max_win_streak = max(@, state.current_win_streak + 1)]
    ELSE IF result = "loss"
    THEN [state EXCEPT !.current_loss_streak = @ + 1,
                       !.current_win_streak = 0,
                       !.max_loss_streak = max(@, state.current_loss_streak + 1)]
    ELSE state

\* one pass of the streak loop of extract_hidden_gems
hidden_gems_pass(state, result) ==
    IF result = "win"
    THEN [state EXCEPT !.current_win_streak = @ + 1,
                       !.current_loss_streak = 0,
                       !.max_win_streak = max(@, state.current_win_streak + 1)]
    ELSE IF result = "loss"
    THEN [state EXCEPT !.current_loss_streak = @ + 1,
                       !.current_win_streak = 0,
                       !.max_loss_streak = max(@, state.current_loss_streak + 1)]
    ELSE [state EXCEPT !.current_win_streak = 0, !.current_loss_streak = 0]

RECURSIVE hidden_gems_loop(_, _)
\* for result in results
hidden_gems_loop(values, state) ==
    IF Len(values) = 0 THEN state
    ELSE hidden_gems_loop(Tail(values), hidden_gems_pass(state, Head(values)))

\* the results of one account in datetime order, before the streak analysis
StreakInit ==
    /\ results \in SeqsUpTo(ResultTypes, MaxResults)
    /\ stage = "results"
    /\ streaks = <<>>
    /\ max_win_streak = 0
    /\ max_loss_streak = 0
    /\ source = <<>>
    /\ script = "parse_pgn_file"
    /\ pos = 1
    /\ pc = "done"
    /\ games = <<>>
    /\ games_data = <<>>
    /\ game_count = 0
    /\ players = {}
    /\ player_df = <<>>
    /\ deriver = "none"
    /\ main_df = <<>>
    /\ df_sorted = <<>>
    /\ run = 1
    /\ previous = None

\* create_charts: streaks = calculate_streaks(account_data['result'].tolist())
CalculateStreaks ==
    /\ stage = "results"
    /\ streaks' = calculate_streaks(results)
    /\ stage' = "charted"
    /\ UNCHANGED <<results, max_win_streak, max_loss_streak>>
    /\ UNCHANGED <<source, script, pos, pc, games, games_data, game_count, players,
                   player_df, deriver, main_df, df_sorted, run, previous>>

\* extract_hidden_gems: the streak loop over the same results
ExtractHiddenGems ==
    /\ stage = "charted"
    /\ \E end \in {hidden_gems_loop(results, hidden_gems_start)} :
          /\ max_win_streak' = end.max_win_streak
          /\ max_loss_streak' = end.max_loss_streak
    /\ stage' = "reported"
    /\ UNCHANGED <<results, streaks>>
    /\ UNCHANGED <<source, script, pos, pc, games, games_data, game_count, players,
                   player_df, deriver, main_df, df_sorted, run, previous>>

StreakNext == CalculateStreaks \/ ExtractHiddenGems

\* the streak analysis over every list of results up to MaxResults
StreakSpec == StreakInit /\ [][StreakNext]_vars

\* the streak type repeated length times
RECURSIVE Repeated(_, _)
Repeated(type, length) ==
    IF length <= 0 THEN <<>> ELSE <<type>> \o Repeated(type, length - 1)

\* the streaks written out one result at a time
RECURSIVE Expanded(_)
Expanded(runs) ==
    IF Len(runs) = 0 THEN <<>>
    ELSE Repeated(Head(runs)[1], Head(runs)[2]) \o Expanded(Tail(runs))

\* the sum of the streak lengths
RECURSIVE SumOfLengths(_)
SumOfLengths(runs) ==
    IF Len(runs) = 0 THEN 0 ELSE Head(runs)[2] + SumOfLengths(Tail(runs))

\* C28: calculate_streaks partitions the result list into maximal runs: every
\* streak has length at least 1, two consecutive streaks have different
\* types, the lengths sum to the length of the list, writing the streaks out
\* in order gives the list back, and the empty list gives no streaks.
C28_PartitionIntoRuns ==
    stage \in {"charted", "reported"} =>
        /\ \A i \in 1..Len(streaks) : streaks[i][2] >= 1
        /\ \A i \in 1..(Len(streaks) - 1) : streaks[i][1] # streaks[i + 1][1]
        /\ SumOfLengths(streaks) = Len(results)
        /\ Expanded(streaks) = results
        /\ Len(results) = 0 => streaks = <<>>

\* C28 witness: a list of five results with a run in the middle and a run at
\* the end has been cut into its three streaks
C28_Witness ==
    /\ stage = "charted"
    /\ results = <<"win", "draw", "draw", "loss", "loss">>
    /\ streaks = <<<<"win", 1>>, <<"draw", 2>>, <<"loss", 2>>>>

\* the lengths of the runs of consecutive results of one type
RunLengths(values, type) ==
    {j - i + 1 : i \in 1..Len(values), j \in 1..Len(values)} \cap
    {n \in 1..Len(values) :
        \E i \in 1..(Len(values) - n + 1) : \A k \in i..(i + n - 1) : values[k] = type}

\* the greatest member of a set of naturals, 0 for the empty set
Greatest(S) == IF S = {} THEN 0 ELSE CHOOSE n \in S : \A m \in S : m <= n

\* the lengths of the streaks of one type
StreakLengths(runs, type) == {runs[i][2] : i \in {k \in 1..Len(runs) : runs[k][1] = type}}

\* C29: the longest win (loss) streak extract_hidden_gems reports is the
\* length of the longest run of consecutive 'win' ('loss') results of the
\* list, which a draw or the opposite result ends; it is the greatest length
\* of a 'win' ('loss') streak of calculate_streaks over the same list, and 0
\* when the list holds no such result.
C29_LongestStreaks ==
    stage = "reported" =>
        /\ max_win_streak = Greatest(RunLengths(results, "win"))
        /\ max_loss_streak = Greatest(RunLengths(results, "loss"))
        /\ max_win_streak = Greatest(StreakLengths(streaks, "win"))
        /\ max_loss_streak = Greatest(StreakLengths(streaks, "loss"))
        /\ (\A i \in 1..Len(results) : results[i] # "win") => max_win_streak = 0
        /\ (\A i \in 1..Len(results) : results[i] # "loss") => max_loss_streak = 0

\* C29 witness: two wins, a draw, a win and a loss were reported as a longest
\* win streak of 2 and a longest loss streak of 1
C29_Witness ==
    /\ stage = "reported"
    /\ results = <<"win", "win", "draw", "win", "loss">>
    /\ max_win_streak = 2
    /\ max_loss_streak = 1

\* the number of tracked sides of the games of a list
RECURSIVE TrackedSides(_)
TrackedSides(list) ==
    IF Len(list) = 0 THEN 0
    ELSE (IF Head(list).white_player \in AllowList THEN 1 ELSE 0)
         + (IF Head(list).black_player \in AllowList THEN 1 ELSE 0)
         + TrackedSides(Tail(list))

\* the outcomes two complementary perspectives of one game can hold
ComplementaryOutcomes == {<<"win", "loss">>, <<"loss", "win">>, <<"draw", "draw">>}

\* C30: in ChessAnalyzer.prepare_player_data a game with both sides tracked
\* yields two complementary rows: one of side white and one of side black,
\* whose identities are the two players, whose player and opponent ratings are
\* swapped and whose outcomes are (win, loss), (loss, win) or (draw, draw); and
\* the number of player rows is the number of tracked sides over all games.
C30_ComplementaryRows ==
    script = "ChessAnalyzer" /\ pc = "done" =>
        /\ Len(player_df) = TrackedSides(games_data)
        /\ \A k \in 1..Len(games_data) :
              LET g == games_data[k]
              IN g.white_player \in AllowList /\ g.black_player \in AllowList =>
                    \E i, j \in RowsOf(g.game_number) :
                        /\ RowsOf(g.game_number) = {i, j}
                        /\ player_df[i].player_color = "white"
                        /\ player_df[j].player_color = "black"
                        /\ player_df[i].player = g.white_player
                        /\ player_df[j].player = g.black_player
                        /\ player_df[i].opponent = player_df[j].player
                        /\ player_df[j].opponent = player_df[i].player
                        /\ player_df[i].player_elo = player_df[j].opponent_elo
                        /\ player_df[i].opponent_elo = player_df[j].player_elo
                        /\ <<player_df[i].player_result, player_df[j].player_result>>
                              \in ComplementaryOutcomes

\* C30 witness: a game of IsmatS against Cassiny rated 1500 and 987 that Black
\* won has given a white loss and a black win with the ratings swapped, next
\* to a game with one tracked side
C30_Witness ==
    /\ script = "ChessAnalyzer" /\ pc = "done"
    /\ Len(games_data) = 2 /\ Len(player_df) = 3
    /\ \E i \in 1..2 :
          /\ player_df[i].player = "IsmatS" /\ player_df[i + 1].player = "Cassiny"
          /\ player_df[i].game_number = player_df[i + 1].game_number
          /\ player_df[i].player_color = "white" /\ player_df[i + 1].player_color = "black"
          /\ player_df[i].player_elo = 1500 /\ player_df[i].opponent_elo = 987
          /\ player_df[i + 1].player_elo = 987 /\ player_df[i + 1].opponent_elo = 1500
          /\ player_df[i].player_result = "loss" /\ player_df[i + 1].player_result = "win"

=============================================================================
